---- MODULE Spec2Model ----
(***************************************************************************)
(* anygroup: run() walks a directory tree, parseFile() parses every .go    *)
(* file, inspects its syntax tree and prints one line per signature that   *)
(* was not printed before for that file.                                   *)
(*                                                                         *)
(* Strings are TLA+ strings, so the rendered lines are the bytes the       *)
(* program prints (without the trailing newline); stdout is the sequence   *)
(* of lines written so far.                                                *)
(***************************************************************************)
EXTENDS Naturals, Sequences, FiniteSets, TLC

VARIABLES
    dir,        \* what filepath.Walk finds under opts.RootDir, in walk order
    next,       \* index in dir of the entry the walk hands to the callback next
    pc,         \* "walk": between callbacks; "inspect": inside ast.Inspect; "done"
    filename,   \* parseFile's parameter
    processed,  \* parseFile's local map, as the set of keys mapped to true
    todo,       \* nodes ast.Inspect has still to visit, in visiting order
    stdout      \* lines written by fmt.Printf / fmt.Println

vars == <<dir, next, pc, filename, processed, todo, stdout>>

----------------------------------------------------------------------------
(* Bounds *)

MaxFiles == 2       \* entries of a walk (specification Spec)
MaxRunDecls == 1    \* top-level declarations of a file of a walk
MaxDecls == 3       \* top-level declarations of the file of a single parseFile call

----------------------------------------------------------------------------
(* package strings *)

RECURSIVE Join(_, _)
Join(elems, sep) ==
    IF elems = <<>> THEN ""
    ELSE IF Len(elems) = 1 THEN elems[1]
    ELSE elems[1] \o sep \o Join(Tail(elems), sep)

HasPrefix(s, prefix) ==
    Len(s) >= Len(prefix) /\ SubSeq(s, 1, Len(prefix)) = prefix

HasSuffix(s, suffix) ==
    Len(s) >= Len(suffix) /\ SubSeq(s, Len(s) - Len(suffix) + 1, Len(s)) = suffix

TrimPrefix(s, prefix) ==
    IF HasPrefix(s, prefix) THEN SubSeq(s, Len(prefix) + 1, Len(s)) ELSE s

TrimSuffix(s, suffix) ==
    IF HasSuffix(s, suffix) THEN SubSeq(s, 1, Len(s) - Len(suffix)) ELSE s

----------------------------------------------------------------------------
(* go/ast nodes, as records.  A nil expression is Nil; a nil or empty list *)
(* is <<>>.                                                                *)

Nil == [kind |-> "nil"]
Ident(name) == [kind |-> "Ident", name |-> name]
ArrayType == [kind |-> "ArrayType"]
BasicLit == [kind |-> "BasicLit", addr |-> "0xc000000000"]
Field(names, type) == [kind |-> "Field", names |-> names, type |-> type]
StructType(fields) == [kind |-> "StructType", fields |-> fields]
TypeSpec(name, type) == [kind |-> "TypeSpec", name |-> name, type |-> type]
ValueSpec(names, type, values) ==
    [kind |-> "ValueSpec", names |-> names, type |-> type, values |-> values]
ImportSpec == [kind |-> "ImportSpec"]
GenDecl(tok, specs) == [kind |-> "GenDecl", tok |-> tok, specs |-> specs]
FuncDecl(name, params, results, body) ==
    [kind |-> "FuncDecl", name |-> name, params |-> params,
     results |-> results, body |-> body]
DeclStmt(decl) == [kind |-> "DeclStmt", decl |-> decl]
ExprStmt == [kind |-> "ExprStmt"]
File(decls) == [kind |-> "File", decls |-> decls]

----------------------------------------------------------------------------
(* The renderers *)

RECURSIVE FieldNames(_)
\* for _, f := range list { for _, name := range f.Names { append(name.Name) } }
FieldNames(list) ==
    IF list = <<>> THEN <<>> ELSE Head(list).names \o FieldNames(Tail(list))

RECURSIVE ResultIdents(_)
\* one entry per result field whose type is an *ast.Ident, others are skipped
ResultIdents(list) ==
    IF list = <<>> THEN <<>>
    ELSE (IF Head(list).type.kind = "Ident" THEN <<Head(list).type.name>> ELSE <<>>)
         \o ResultIdents(Tail(list))

RECURSIVE ResultKinds(_)
ResultKinds(list) ==
    IF list = <<>> THEN <<>>
    ELSE <<IF Head(list).type.kind = "Ident" THEN Head(list).type.name
           ELSE Head(list).type.kind>> \o ResultKinds(Tail(list))

\* a slip that renders every result, identifier or not
getFunctionSignatureAllResults(fn) ==
    fn.name \o "(" \o Join(FieldNames(fn.params), ", ") \o ") "
            \o Join(ResultKinds(fn.results), ", ")

getFunctionSignature(fn) ==
    fn.name \o "(" \o Join(FieldNames(fn.params), ", ") \o ") "
            \o Join(ResultIdents(fn.results), ", ")

getStructDefinition(structName, st) ==
    "type " \o structName \o " struct { " \o Join(FieldNames(st.fields), ", ") \o " }"

\* fmt.Sprint of an expression: an *ast.Ident prints its name (Ident.String)
Sprint(expr) == expr.name

removeTokenInfo(s) == TrimPrefix(TrimSuffix(s, ">"), "%!s(")

RECURSIVE GoStringElems(_)
GoStringElems(values) ==
    IF values = <<>> THEN <<>>
    ELSE <<"(*ast." \o Head(values).kind \o ")(" \o Head(values).addr \o ")">>
         \o GoStringElems(Tail(values))

\* fmt.Sprintf("%#v", vs.Values): the slice's type and each element's pointer
GoString(values) == "[]ast.Expr{" \o Join(GoStringElems(values), ", ") \o "}"

getVariableDefinition(vs) ==
    IF Len(vs.names) = 0 THEN ""
    ELSE LET typeStr == IF vs.type # Nil THEN removeTokenInfo(Sprint(vs.type)) ELSE ""
             valueStr == IF Len(vs.values) > 0 THEN GoString(vs.values) ELSE ""
         IN  "var " \o Join(vs.names, ", ") \o " " \o typeStr \o " " \o valueStr

----------------------------------------------------------------------------
(* parseFile: the callback given to ast.Inspect *)

RECURSIVE StructSignatures(_)
StructSignatures(specs) ==
    IF specs = <<>> THEN <<>>
    ELSE (IF Head(specs).kind = "TypeSpec" /\ Head(specs).type.kind = "StructType"
          THEN <<"struct " \o getStructDefinition(Head(specs).name, Head(specs).type)>>
          ELSE <<>>)
         \o StructSignatures(Tail(specs))

RECURSIVE VarSignaturesPerName(_)
\* a slip that prints every name of a spec on its own
VarSignaturesPerName(specs) ==
    IF specs = <<>> THEN <<>>
    ELSE (IF Head(specs).kind = "ValueSpec"
          THEN [i \in 1..Len(Head(specs).names) |->
                    "var " \o getVariableDefinition(
                        [Head(specs) EXCEPT !.names = <<Head(specs).names[i]>>])]
          ELSE <<>>)
         \o VarSignaturesPerName(Tail(specs))

RECURSIVE VarSignatures(_)
VarSignatures(specs) ==
    IF specs = <<>> THEN <<>>
    ELSE (IF Head(specs).kind = "ValueSpec"
          THEN <<"var " \o getVariableDefinition(Head(specs))>>
          ELSE <<>>)
         \o VarSignatures(Tail(specs))

\* the strings the callback hands to processIfNotProcessed for node n, in order
Signatures(n) ==
    IF n.kind = "FuncDecl" THEN <<"function " \o getFunctionSignature(n)>>
    ELSE IF n.kind = "GenDecl" THEN
        IF n.tok = "type" THEN StructSignatures(n.specs)
        ELSE IF n.tok = "var" THEN VarSignatures(n.specs)
        ELSE <<>>
    ELSE <<>>

\* the child nodes ast.Inspect descends into (the callback always returns
\* true); specs, fields, identifiers and expressions are left out: the
\* callback does nothing for them and they hold no declaration here
Children(n) ==
    IF n.kind = "File" THEN n.decls
    ELSE IF n.kind = "FuncDecl" THEN n.body
    ELSE IF n.kind = "DeclStmt" THEN <<n.decl>>
    ELSE <<>>

\* a traversal that puts off a node's children until its siblings are done
DescendLate(children, rest) == rest \o children

\* depth first: a node's children are visited before its next sibling
Descend(children, rest) == children \o rest

\* a slip that prints without looking at the map
processAlways(st, s) ==
    [out |-> Append(st.out, filename \o ": " \o s), processed |-> st.processed \cup {s}]

\* st = [out, processed]: the sink and the map before; the result is them after
processIfNotProcessed(st, s) ==
    IF s \notin st.processed
    THEN [out |-> Append(st.out, filename \o ": " \o s),
          processed |-> st.processed \cup {s}]
    ELSE st

RECURSIVE processEach(_, _)
processEach(st, sigs) ==
    IF sigs = <<>> THEN st
    ELSE processEach(processIfNotProcessed(st, Head(sigs)), Tail(sigs))

\* the three slices parseFile declares and never appends to
functionSignatures == <<>>
structDefinitions == <<>>
variableDefinitions == <<>>

----------------------------------------------------------------------------
(* The inputs: syntax trees go/parser returns, and directory listings *)

int == Ident("int")

VarAB == GenDecl("var", <<ValueSpec(<<"a", "b">>, int, <<>>)>>)

\* func main() { var a, b int }
FnMain == FuncDecl("main", <<>>, <<>>, <<DeclStmt(VarAB)>>)

\* func Add(a, b int) int { }
FnAdd == FuncDecl("Add", <<Field(<<"a", "b">>, int)>>, <<Field(<<>>, int)>>, <<>>)

\* func Div(x int, y int) (int, []byte, error) { f(); type L struct { X int } }
FnDiv ==
    FuncDecl("Div",
             <<Field(<<"x">>, int), Field(<<"y">>, int)>>,
             <<Field(<<>>, int), Field(<<>>, ArrayType), Field(<<>>, Ident("error"))>>,
             <<ExprStmt,
               DeclStmt(GenDecl("type",
                   <<TypeSpec("L", StructType(<<Field(<<"X">>, int)>>))>>))>>)

\* type ( Point struct { X, Y int; Base }; Alias int; E struct{} )
TyPoint ==
    GenDecl("type",
            <<TypeSpec("Point", StructType(<<Field(<<"X", "Y">>, int),
                                             Field(<<>>, Ident("Base"))>>)),
              TypeSpec("Alias", int),
              TypeSpec("E", StructType(<<>>))>>)

\* var ( a, b int; c = 1 )
VarGroup ==
    GenDecl("var", <<ValueSpec(<<"a", "b">>, int, <<>>),
                     ValueSpec(<<"c">>, Nil, <<BasicLit>>)>>)

\* const Pi = 3
ConstPi == GenDecl("const", <<ValueSpec(<<"Pi">>, Nil, <<BasicLit>>)>>)

\* import "fmt"
ImportFmt == GenDecl("import", <<ImportSpec>>)

\* a value spec without names: go/parser never returns one without an error
VarNoName == GenDecl("var", <<ValueSpec(<<>>, int, <<>>)>>)

ParsedDecls == {FnMain, FnAdd, FnDiv, TyPoint, VarAB, VarGroup, ConstPi, ImportFmt}
RunDecls == {FnAdd, TyPoint, VarGroup}

\* the parser allocates every expression anew: the values of the i-th
\* declaration get addresses of their own
Place(decl, i) ==
    IF decl.kind # "GenDecl" THEN decl
    ELSE [decl EXCEPT !.specs =
            [j \in 1..Len(decl.specs) |->
                IF decl.specs[j].kind # "ValueSpec" THEN decl.specs[j]
                ELSE [decl.specs[j] EXCEPT !.values =
                        [k \in 1..Len(decl.specs[j].values) |->
                            [decl.specs[j].values[k] EXCEPT !.addr =
                                "0xc0000" \o ToString(i) \o ToString(j)
                                          \o ToString(k) \o "0"]]]]]

SeqsUpTo(S, n) == UNION {[1..m -> S] : m \in 0..n}

Files(decls, n) ==
    {File([i \in 1..Len(ds) |-> Place(ds[i], i)]) : ds \in SeqsUpTo(decls, n)}

\* the i-th entry of a walk: the argument of one call of the callback
Entries(i, files) ==
    LET at(name) == "d" \o ToString(i) \o "/" \o name
        entry(name, isDir, err, parseErr, file) ==
            [path |-> at(name), name |-> name, isDir |-> isDir, err |-> err,
             parseErr |-> parseErr, file |-> file]
    IN  {entry("m.go", FALSE, "lstat " \o at("m.go") \o ": permission denied",
               "", File(<<>>)),
         entry("sub", TRUE, "", "", File(<<>>)),
         entry("m.go", TRUE, "", "", File(<<>>)),
         entry("notes.md", FALSE, "", "", File(<<>>)),
         entry("m.go", FALSE, "",
               at("m.go") \o ":1:1: expected 'package', found 'EOF'", File(<<>>))}
        \cup {entry("m.go", FALSE, "", "", f) : f \in files}

Listings(n, files) ==
    UNION {{d \in [1..m -> UNION {Entries(i, files) : i \in 1..m}] :
                \A i \in 1..m : d[i] \in Entries(i, files)} : m \in 1..n}

----------------------------------------------------------------------------
(* The state machine *)

Start ==
    /\ next = 1
    /\ pc = "walk"
    /\ filename = ""
    /\ processed = {}
    /\ todo = <<>>
    /\ stdout = <<>>

\* run() over a directory tree
Init == dir \in Listings(MaxFiles, Files(RunDecls, MaxRunDecls)) /\ Start

\* one call parseFile(filename) on a file the parser accepts
InitFile ==
    /\ dir \in {<<e>> : e \in {x \in Entries(1, Files(ParsedDecls, MaxDecls)) :
                                  ~x.isDir /\ x.err = "" /\ x.parseErr = ""
                                  /\ x.name = "m.go"}}
    /\ Start

\* one call of parseFile's logic on any syntax tree
InitAnyTree ==
    /\ dir \in {<<e>> : e \in {x \in Entries(1, Files(ParsedDecls \cup {VarNoName},
                                                        MaxDecls)) :
                                  ~x.isDir /\ x.err = "" /\ x.parseErr = ""
                                  /\ x.name = "m.go"}}
    /\ Start

Calling == pc = "walk" /\ next <= Len(dir)

IsGoFile(e) == ~e.isDir /\ HasSuffix(e.name, ".go")

\* the walk function is called with an error: print it, go on
WalkFnErr ==
    /\ Calling
    /\ dir[next].err # ""
    /\ stdout' = Append(stdout, dir[next].err)
    /\ next' = next + 1
    /\ UNCHANGED <<dir, pc, filename, processed, todo>>

\* a directory, or a file whose name does not end in ".go"
WalkFnSkip ==
    /\ Calling
    /\ dir[next].err = ""
    /\ ~IsGoFile(dir[next])
    /\ next' = next + 1
    /\ UNCHANGED <<dir, pc, filename, processed, todo, stdout>>

\* a slip that returns the parse error to the walk, which then stops
ParseFileErrAbort ==
    /\ Calling
    /\ dir[next].err = ""
    /\ IsGoFile(dir[next])
    /\ dir[next].parseErr # ""
    /\ filename' = dir[next].path
    /\ stdout' = Append(stdout, dir[next].path \o ": " \o dir[next].parseErr)
    /\ pc' = "done"
    /\ UNCHANGED <<dir, next, processed, todo>>

\* parseFile: parser.ParseFile fails
ParseFileErr ==
    /\ Calling
    /\ dir[next].err = ""
    /\ IsGoFile(dir[next])
    /\ dir[next].parseErr # ""
    /\ filename' = dir[next].path
    /\ stdout' = Append(stdout, dir[next].path \o ": " \o dir[next].parseErr)
    /\ next' = next + 1
    /\ UNCHANGED <<dir, pc, processed, todo>>

\* a slip that keeps one map for all files
ParseFileOkSharedMap ==
    /\ Calling
    /\ dir[next].err = ""
    /\ IsGoFile(dir[next])
    /\ dir[next].parseErr = ""
    /\ filename' = dir[next].path
    /\ todo' = <<dir[next].file>>
    /\ pc' = "inspect"
    /\ UNCHANGED <<dir, next, processed, stdout>>

\* parseFile: the file parses; the map is made and ast.Inspect starts
ParseFileOk ==
    /\ Calling
    /\ dir[next].err = ""
    /\ IsGoFile(dir[next])
    /\ dir[next].parseErr = ""
    /\ filename' = dir[next].path
    /\ processed' = {}
    /\ todo' = <<dir[next].file>>
    /\ pc' = "inspect"
    /\ UNCHANGED <<dir, next, stdout>>

\* one call of the callback by ast.Inspect
InspectNode ==
    /\ pc = "inspect"
    /\ todo # <<>>
    /\ LET n == Head(todo)
           st == processEach([out |-> stdout, processed |-> processed], Signatures(n))
       IN  /\ stdout' = st.out
           /\ processed' = st.processed
           /\ todo' = Descend(Children(n), Tail(todo))
    /\ UNCHANGED <<dir, next, pc, filename>>

\* ast.Inspect is through: the three loops over the empty slices, and return
ParseFileReturn ==
    /\ pc = "inspect"
    /\ todo = <<>>
    /\ LET st == processEach([out |-> stdout, processed |-> processed],
                             structDefinitions \o variableDefinitions
                                               \o functionSignatures)
       IN  /\ stdout' = st.out
           /\ processed' = st.processed
    /\ pc' = "walk"
    /\ next' = next + 1
    /\ UNCHANGED <<dir, filename, todo>>

\* filepath.Walk is through: run returns nil
RunReturn ==
    /\ pc = "walk"
    /\ next > Len(dir)
    /\ pc' = "done"
    /\ UNCHANGED <<dir, next, filename, processed, todo, stdout>>

Next ==
    \/ WalkFnErr
    \/ WalkFnSkip
    \/ ParseFileErr
    \/ ParseFileOk
    \/ InspectNode
    \/ ParseFileReturn
    \/ RunReturn

NextFile ==
    \/ ParseFileOk
    \/ InspectNode
    \/ ParseFileReturn

Spec == Init /\ [][Next]_vars

SpecFile == InitFile /\ [][NextFile]_vars

SpecAnyTree == InitAnyTree /\ [][NextFile]_vars

----------------------------------------------------------------------------
(* What the properties talk about *)

Line(path, s) == path \o ": " \o s

Range(seq) == {seq[i] : i \in DOMAIN seq}

Count(seq, x) == Cardinality({i \in DOMAIN seq : seq[i] = x})

IsPrefixOf(s, t) == Len(s) <= Len(t) /\ s = SubSeq(t, 1, Len(s))

RECURSIVE Nodes(_)
\* the nodes below and including `nodes`, in the order of the source text
Nodes(nodes) ==
    IF nodes = <<>> THEN <<>>
    ELSE <<Head(nodes)>> \o Nodes(Children(Head(nodes))) \o Nodes(Tail(nodes))

RECURSIVE SignaturesOf(_)
SignaturesOf(nodes) ==
    IF nodes = <<>> THEN <<>>
    ELSE Signatures(Head(nodes)) \o SignaturesOf(Tail(nodes))

\* the signatures of the i-th entry's file, in the order of the source text
TextOrder(i) == SignaturesOf(Nodes(<<dir[i].file>>))

RECURSIVE Uniq(_, _)
Uniq(seq, had) ==
    IF seq = <<>> THEN <<>>
    ELSE IF Head(seq) \in had THEN Uniq(Tail(seq), had)
    ELSE <<Head(seq)>> \o Uniq(Tail(seq), had \cup {Head(seq)})

\* the lines a file is to give: each signature once, where it first occurs
Expected(i) ==
    LET u == Uniq(TextOrder(i), {})
    IN  [k \in 1..Len(u) |-> Line(dir[i].path, u[k])]

Parsed(i) == dir[i].err = "" /\ IsGoFile(dir[i]) /\ dir[i].parseErr = ""

ParseFails(i) == dir[i].err = "" /\ IsGoFile(dir[i]) /\ dir[i].parseErr # ""

Finished(i) == i < next

\* the lines of stdout that start with the i-th entry's path
FileLines(i) ==
    LET mine(l) == HasPrefix(l, dir[i].path \o ": ")
    IN  SelectSeq(stdout, mine)

TopLevel(i) == dir[i].file.decls

----------------------------------------------------------------------------
(* C1: per-file dedup.  For every file, each distinct signature string is  *)
(* on stdout at most once under that file's path, and exactly once when    *)
(* the file is done: a later occurrence of the same string writes nothing. *)
PerFileDedup ==
    \A i \in DOMAIN dir :
        Parsed(i) =>
            \A s \in Range(TextOrder(i)) :
                /\ Count(stdout, Line(dir[i].path, s)) <= 1
                /\ Finished(i) => Count(stdout, Line(dir[i].path, s)) = 1

PerFileDedupWitness ==
    /\ Finished(1)
    /\ Parsed(1)
    /\ \E a, b \in DOMAIN TextOrder(1) :
        /\ a < b
        /\ TextOrder(1)[a] = TextOrder(1)[b]
        /\ Count(stdout, Line(dir[1].path, TextOrder(1)[a])) = 1

(* C2: cross-file non-dedup.  While a file is inspected the map holds      *)
(* exactly the signatures written under that file's path, so nothing       *)
(* carries over; two files that both hold a signature each get their line. *)
CrossFileNonDedup ==
    /\ pc = "inspect" =>
           processed = {s \in Range(TextOrder(next)) :
                            Line(filename, s) \in Range(stdout)}
    /\ \A i, j \in DOMAIN dir :
           (i # j /\ Parsed(i) /\ Parsed(j) /\ Finished(i) /\ Finished(j)) =>
               \A s \in Range(TextOrder(i)) \cap Range(TextOrder(j)) :
                   /\ Count(stdout, Line(dir[i].path, s)) = 1
                   /\ Count(stdout, Line(dir[j].path, s)) = 1

CrossFileNonDedupWitness ==
    /\ pc = "done"
    /\ \E i, j \in DOMAIN dir :
        /\ i < j
        /\ Parsed(i)
        /\ Parsed(j)
        /\ \E s \in Range(TextOrder(i)) \cap Range(TextOrder(j)) :
            /\ Line(dir[i].path, s) \in Range(stdout)
            /\ Line(dir[j].path, s) \in Range(stdout)

ParseFailureIsolation ==
    /\ \A i \in DOMAIN dir :
           ParseFails(i) =>
               FileLines(i) = IF Finished(i)
                              THEN <<Line(dir[i].path, dir[i].parseErr)>>
                              ELSE <<>>
    /\ pc = "done" =>
           /\ next = Len(dir) + 1
           /\ \A j \in DOMAIN dir : Parsed(j) => FileLines(j) = Expected(j)
    /\ pc # "done" => ENABLED Next

ParseFailureIsolationWitness ==
    /\ pc = "done"
    /\ \E i, j \in DOMAIN dir :
        /\ i < j
        /\ ParseFails(i)
        /\ Parsed(j)
        /\ Expected(j) # <<>>
        /\ FileLines(j) = Expected(j)

\* the node without its value specs that have no name
Named(n) ==
    IF n.kind = "GenDecl"
    THEN LET named(spec) == spec.kind # "ValueSpec" \/ spec.names # <<>>
         IN  [n EXCEPT !.specs = SelectSeq(n.specs, named)]
    ELSE n

TopLevelOnly ==
    \A l \in Range(stdout) :
        \E k \in DOMAIN TopLevel(1) :
            /\ \/ TopLevel(1)[k].kind = "FuncDecl"
               \/ TopLevel(1)[k].kind = "GenDecl" /\ TopLevel(1)[k].tok \in {"type", "var"}
            /\ \E s \in Range(Signatures(TopLevel(1)[k])) : l = Line(dir[1].path, s)

(* C7: the report holds only declaration lines.  Every line on stdout is   *)
(* `PATH: KIND ...` for a declaration of the file at PATH; the diagnostic  *)
(* of a parse error or of a walk error is not on stdout.                   *)
ReportHoldsOnlyDeclarations ==
    \A l \in Range(stdout) :
        \E i \in DOMAIN dir :
            /\ Parsed(i)
            /\ \E s \in Range(TextOrder(i)) : l = Line(dir[i].path, s)

VarGroups(i) ==
    LET group(n) == n.kind = "GenDecl" /\ n.tok = "var"
    IN  SelectSeq(Nodes(<<dir[i].file>>), group)

RECURSIVE NumSpecs(_)
NumSpecs(groups) ==
    IF groups = <<>> THEN 0 ELSE Len(Head(groups).specs) + NumSpecs(Tail(groups))

VarLines(i) ==
    LET var(l) == HasPrefix(l, dir[i].path \o ": var ")
    IN  SelectSeq(stdout, var)

(* C8 as stated: one variable declaration per group.  A var group gives at *)
(* most one line, however many specs it holds.                             *)
OneLinePerVarGroup ==
    \A g \in Range(VarGroups(1)) :
        Cardinality({l \in Range(stdout) :
            \E k \in DOMAIN g.specs :
                l = Line(dir[1].path, "var " \o getVariableDefinition(g.specs[k]))}) <= 1

(* C8 amended: one variable declaration per value spec.  Every value spec  *)
(* of a var group gives one signature whatever the number of its names, so *)
(* there are at most as many var lines as value specs, and each spec's     *)
(* line is there exactly once when the file is done.                       *)
OneLinePerValueSpec ==
    /\ Len(VarLines(1)) <= NumSpecs(VarGroups(1))
    /\ Finished(1) =>
           \A g \in Range(VarGroups(1)) :
               \A k \in DOMAIN g.specs :
                   Count(stdout, Line(dir[1].path,
                                      "var " \o getVariableDefinition(g.specs[k]))) = 1

OneLinePerValueSpecWitness ==
    /\ Finished(1)
    /\ \E g \in Range(VarGroups(1)) :
        /\ Len(g.specs) = 2
        /\ Len(g.specs[1].names) = 2
        /\ \A k \in DOMAIN g.specs :
            Line(dir[1].path, "var " \o getVariableDefinition(g.specs[k]))
                \in Range(stdout)
    /\ Len(VarLines(1)) = 2

(* C9: record rendering.  When the file is done, every struct type NAME    *)
(* declared at file scope has the line `FILE: struct NAME { F1, F2, ... }` *)
(* with its named fields joined by ", ".                                   *)
RecordRendering ==
    Finished(1) =>
        \A k \in DOMAIN TopLevel(1) :
            (TopLevel(1)[k].kind = "GenDecl" /\ TopLevel(1)[k].tok = "type") =>
                \A j \in DOMAIN TopLevel(1)[k].specs :
                    LET ts == TopLevel(1)[k].specs[j]
                    IN  ts.type.kind = "StructType" =>
                            Line(dir[1].path,
                                 "struct " \o ts.name \o " { "
                                     \o Join(FieldNames(ts.type.fields), ", ") \o " }")
                                \in Range(stdout)

FunctionLines(i) ==
    LET function(l) == HasPrefix(l, dir[i].path \o ": function ")
    IN  SelectSeq(stdout, function)

FuncDecls(i) ==
    LET func(n) == n.kind = "FuncDecl"
    IN  SelectSeq(Nodes(<<dir[i].file>>), func)

(* C10 as stated: function rendering.  When the file is done, every        *)
(* function has the line `FILE: function NAME(P1, P2, ...) R1 R2 ...`:     *)
(* parameter names joined by ", ", identifier result types joined by " ".  *)
FunctionRenderingSpaceJoined ==
    Finished(1) =>
        \A fn \in Range(FuncDecls(1)) :
            Line(dir[1].path,
                 "function " \o fn.name \o "(" \o Join(FieldNames(fn.params), ", ")
                     \o ") " \o Join(ResultIdents(fn.results), " "))
                \in Range(stdout)

(* C10 amended: function rendering.  When the file is done, every function *)
(* has the line `FILE: function NAME(P1, P2, ...) R1, R2, ...`: parameter  *)
(* names and identifier result types are both joined by ", ", and results  *)
(* that are no identifiers are left out; no other function line is there.  *)
FunctionRenderingCommaJoined ==
    LET want(fn) ==
            Line(dir[1].path,
                 "function " \o fn.name \o "(" \o Join(FieldNames(fn.params), ", ")
                     \o ") " \o Join(ResultIdents(fn.results), ", "))
    IN  /\ \A l \in Range(FunctionLines(1)) :
               \E fn \in Range(FuncDecls(1)) : l = want(fn)
        /\ Finished(1) =>
               \A fn \in Range(FuncDecls(1)) : want(fn) \in Range(stdout)

FunctionRenderingWitness ==
    /\ Finished(1)
    /\ \E fn \in Range(FuncDecls(1)) :
        /\ Len(FieldNames(fn.params)) >= 2
        /\ Len(ResultIdents(fn.results)) >= 2
        /\ Len(ResultIdents(fn.results)) < Len(fn.results)
        /\ Line(dir[1].path,
                "function " \o fn.name \o "(" \o Join(FieldNames(fn.params), ", ")
                    \o ") " \o Join(ResultIdents(fn.results), ", "))
               \in Range(stdout)

====
